---- MODULE Spec2Model ----
(***************************************************************************)
(* A model of the LRU cache with per-entry expiration of cache/lru.go.     *)
(*                                                                         *)
(* The cache is an index (a map from key to list element), a doubly linked *)
(* list of elements ordered by recency (front = most recently used), two   *)
(* counters and a mutex that callers take around their calls.              *)
(***************************************************************************)
EXTENDS Integers, Sequences, FiniteSets, TLC

(***************************************************************************)
(* Bounds of the model.                                                    *)
(***************************************************************************)
Keys == {"a", "b", "c"}
Values == {"v1", "v2"}
\* Clock readings range over 0..MaxTime.
MaxTime == 1
Times == 0 .. MaxTime
\* expireAt arguments: before, at and (at 0) after a clock reading.
ExpireAts == {0, 1}
\* maxSize arguments of NewLRUCache: a negative one, zero (unset), positive ones.
MaxSizes == {0 - 1, 0, 1, 2}
\* The number of Get calls in a run (the counters grow without bound).
MaxGets == 2

\* The number of lock-held brackets each worker thread runs.
MaxBrackets == 2
\* An expiry later than every clock reading.
FutureExpiry == MaxTime + 1

\* The default of holster.SetDefault(&maxSize, 50000).
DefaultCacheSize == 50000

Nil == "nil"
NoValue == "none"

(***************************************************************************)
(* container/list, as far as the cache uses it.  A list is the sequence of *)
(* its elements front to back; an element is named by its address.         *)
(***************************************************************************)
EmptyMap == [x \in {} |-> Nil]

Range(f) == {f[x] : x \in DOMAIN f}

InList(l, e) == \E i \in 1 .. Len(l) : l[i] = e

ListRemove(l, e) == SelectSeq(l, LAMBDA x : x # e)

PushFront(l, e) == <<e>> \o l

\* MoveToFront that exchanges the element with the front one.
MoveToFront_swapsFront(l, e) ==
    IF InList(l, e)
    THEN [i \in 1 .. Len(l) |->
             IF l[i] = e THEN l[1] ELSE IF i = 1 THEN e ELSE l[i]]
    ELSE l

MoveToFront(l, e) == IF InList(l, e) THEN <<e>> \o ListRemove(l, e) ELSE l

Back(l) == IF Len(l) = 0 THEN Nil ELSE l[Len(l)]

(***************************************************************************)
(* Addresses of list elements.  PushFront allocates a fresh element; which *)
(* address it gets is immaterial, so the model names the fresh element     *)
(* after the key of its record when that name is free, and takes any free  *)
(* name otherwise.                                                         *)
(***************************************************************************)
Addrs == Keys \cup {"e1", "e2"}

Live(c) == Range(c.ll) \cup Range(c.cache)

NewElement(c, key) ==
    IF key \notin Live(c) THEN key ELSE CHOOSE e \in Addrs \ Live(c) : TRUE

\* Elements no longer referenced by the list or the index are garbage.
Sweep(c) == [c EXCEPT !.elems = [e \in Live(c) \cap DOMAIN c.elems |-> c.elems[e]]]

(***************************************************************************)
(* The cache.  A value c of this shape is the state of one LRUCache:       *)
(*   c.cache      the index, a function from the present keys to elements  *)
(*   c.ll         the list of elements, front to back                      *)
(*   c.elems      the cacheRecord each element points to                   *)
(*   c.stats      the Hit and Miss counters                                *)
(*   c.cacheSize  the capacity                                             *)
(***************************************************************************)
cacheRecord(key, value, expireAt) ==
    [key |-> key, value |-> value, expireAt |-> expireAt]

\* SetDefault that leaves a zero value as it is.
SetDefault_keepsZero(v, default) == v

\* holster.SetDefault: the default replaces a zero value only.
SetDefault(v, default) == IF v = 0 THEN default ELSE v

NewLRUCache(maxSize) ==
    [cache |-> EmptyMap,
     ll |-> << >>,
     elems |-> EmptyMap,
     stats |-> [Hit |-> 0, Miss |-> 0],
     cacheSize |-> SetDefault(maxSize, DefaultCacheSize)]

Size(c) == Len(c.ll)

\* removeElement without the delete from the index.
removeElement_keepsIndex(c, e) == [c EXCEPT !.ll = ListRemove(c.ll, e)]

removeElement(c, e) ==
    LET kv == c.elems[e]
    IN  [c EXCEPT !.ll = ListRemove(c.ll, e),
                  !.cache = [k \in DOMAIN c.cache \ {kv.key} |-> c.cache[k]]]

\* removeOldest that returns without removing.
removeOldest_skips(c) == c

\* removeOldest that purges an expired entry, when there is one, before the back.
removeOldest_expiredFirst(c) ==
    LET expired == {e \in Range(c.ll) : c.elems[e].expireAt < MaxTime}
    IN  IF expired # {} THEN removeElement(c, CHOOSE e \in expired : TRUE)
        ELSE IF Back(c.ll) # Nil THEN removeElement(c, Back(c.ll))
        ELSE c

removeOldest(c) ==
    LET ele == Back(c.ll)
    IN  IF ele # Nil THEN removeElement(c, ele) ELSE c

\* The eviction test of addRecord, on the length of the list after PushFront.
\* Eviction already when the list has reached the capacity.
Exceeds_atCapacity(len, size) == size # 0 /\ len >= size

Exceeds(len, size) == size # 0 /\ len > size

\* The result of an operation: the cache afterwards and what it returned.
Result(c, ok, value) == [c |-> Sweep(c), ok |-> ok, value |-> value]

\* addRecord that overwrites a present key without moving it to the front.
addRecord_noMove(c, record) ==
    IF record.key \in DOMAIN c.cache
    THEN LET ee == c.cache[record.key]
         IN  Result([c EXCEPT !.elems = [c.elems EXCEPT ![ee] = record]],
                    TRUE, NoValue)
    ELSE LET ele == NewElement(c, record.key)
             pushed == [c EXCEPT
                          !.ll = PushFront(c.ll, ele),
                          !.elems = [e \in DOMAIN c.elems \cup {ele} |->
                                        IF e = ele THEN record ELSE c.elems[e]],
                          !.cache = [k \in DOMAIN c.cache \cup {record.key} |->
                                        IF k = record.key THEN ele ELSE c.cache[k]]]
         IN  IF Exceeds(Len(pushed.ll), pushed.cacheSize)
             THEN Result(removeOldest(pushed), FALSE, NoValue)
             ELSE Result(pushed, FALSE, NoValue)

addRecord(c, record) ==
    IF record.key \in DOMAIN c.cache
    THEN LET ee == c.cache[record.key]
         IN  Result([c EXCEPT !.ll = MoveToFront(c.ll, ee),
                              !.elems = [c.elems EXCEPT ![ee] = record]],
                    TRUE, NoValue)
    ELSE LET ele == NewElement(c, record.key)
             pushed == [c EXCEPT
                          !.ll = PushFront(c.ll, ele),
                          !.elems = [e \in DOMAIN c.elems \cup {ele} |->
                                        IF e = ele THEN record ELSE c.elems[e]],
                          !.cache = [k \in DOMAIN c.cache \cup {record.key} |->
                                        IF k = record.key THEN ele ELSE c.cache[k]]]
         IN  IF Exceeds(Len(pushed.ll), pushed.cacheSize)
             THEN Result(removeOldest(pushed), FALSE, NoValue)
             ELSE Result(pushed, FALSE, NoValue)

Add(c, key, value, expireAt) == addRecord(c, cacheRecord(key, value, expireAt))

\* Get that leaves a hit entry where it is in the list.
Get_noMove(c, key, millisecondNow) ==
    IF key \in DOMAIN c.cache
    THEN LET ele == c.cache[key]
             entry == c.elems[ele]
         IN  IF entry.expireAt < millisecondNow
             THEN Result([removeElement(c, ele) EXCEPT !.stats.Miss = @ + 1],
                         FALSE, NoValue)
             ELSE Result([c EXCEPT !.stats.Hit = @ + 1], TRUE, entry.value)
    ELSE Result([c EXCEPT !.stats.Miss = @ + 1], FALSE, NoValue)

\* Get that takes an entry expiring exactly now for expired.
Get_expiredAtNow(c, key, millisecondNow) ==
    IF key \in DOMAIN c.cache
    THEN LET ele == c.cache[key]
             entry == c.elems[ele]
         IN  IF entry.expireAt <= millisecondNow
             THEN Result([removeElement(c, ele) EXCEPT !.stats.Miss = @ + 1],
                         FALSE, NoValue)
             ELSE Result([c EXCEPT !.stats.Hit = @ + 1,
                                   !.ll = MoveToFront(c.ll, ele)],
                         TRUE, entry.value)
    ELSE Result([c EXCEPT !.stats.Miss = @ + 1], FALSE, NoValue)

\* Get that reports an expired entry as a miss but leaves it in the cache.
Get_keepsExpired(c, key, millisecondNow) ==
    IF key \in DOMAIN c.cache
    THEN LET ele == c.cache[key]
             entry == c.elems[ele]
         IN  IF entry.expireAt < millisecondNow
             THEN Result([c EXCEPT !.stats.Miss = @ + 1], FALSE, NoValue)
             ELSE Result([c EXCEPT !.stats.Hit = @ + 1,
                                   !.ll = MoveToFront(c.ll, ele)],
                         TRUE, entry.value)
    ELSE Result([c EXCEPT !.stats.Miss = @ + 1], FALSE, NoValue)

\* Get that does not count the miss when it purges an expired entry.
Get_expiredUncounted(c, key, millisecondNow) ==
    IF key \in DOMAIN c.cache
    THEN LET ele == c.cache[key]
             entry == c.elems[ele]
         IN  IF entry.expireAt < millisecondNow
             THEN Result(removeElement(c, ele), FALSE, NoValue)
             ELSE Result([c EXCEPT !.stats.Hit = @ + 1,
                                   !.ll = MoveToFront(c.ll, ele)],
                         TRUE, entry.value)
    ELSE Result([c EXCEPT !.stats.Miss = @ + 1], FALSE, NoValue)

\* Get with the reading of MillisecondNow() it makes.
Get(c, key, millisecondNow) ==
    IF key \in DOMAIN c.cache
    THEN LET ele == c.cache[key]
             entry == c.elems[ele]
         IN  IF entry.expireAt < millisecondNow
             THEN Result([removeElement(c, ele) EXCEPT !.stats.Miss = @ + 1],
                         FALSE, NoValue)
             ELSE Result([c EXCEPT !.stats.Hit = @ + 1,
                                   !.ll = MoveToFront(c.ll, ele)],
                         TRUE, entry.value)
    ELSE Result([c EXCEPT !.stats.Miss = @ + 1], FALSE, NoValue)

\* Remove that deletes the entry at the back instead of the entry of the key.
Remove_oldest(c, key) ==
    IF key \in DOMAIN c.cache
    THEN Result(removeOldest(c), FALSE, NoValue)
    ELSE Result(c, FALSE, NoValue)

Remove(c, key) ==
    IF key \in DOMAIN c.cache
    THEN Result(removeElement(c, c.cache[key]), FALSE, NoValue)
    ELSE Result(c, FALSE, NoValue)

\* UpdateExpiration that also moves the entry to the front.
UpdateExpiration_moves(c, key, expireAt) ==
    IF key \in DOMAIN c.cache
    THEN Result([c EXCEPT !.elems[c.cache[key]].expireAt = expireAt,
                          !.ll = MoveToFront(c.ll, c.cache[key])],
                TRUE, NoValue)
    ELSE Result(c, FALSE, NoValue)

\* UpdateExpiration that inserts an entry for an absent key.
UpdateExpiration_creates(c, key, expireAt) ==
    IF key \in DOMAIN c.cache
    THEN Result([c EXCEPT !.elems[c.cache[key]].expireAt = expireAt],
                TRUE, NoValue)
    ELSE Result(addRecord(c, cacheRecord(key, NoValue, expireAt)).c,
                FALSE, NoValue)

\* UpdateExpiration that finds the entry and does not store the new time.
UpdateExpiration_keepsExpireAt(c, key, expireAt) ==
    Result(c, key \in DOMAIN c.cache, NoValue)

UpdateExpiration(c, key, expireAt) ==
    IF key \in DOMAIN c.cache
    THEN Result([c EXCEPT !.elems[c.cache[key]].expireAt = expireAt],
                TRUE, NoValue)
    ELSE Result(c, FALSE, NoValue)

(***************************************************************************)
(* State.  The first five variables are the fields of the LRUCache; mutex  *)
(* is its lock.  The others record the calls made on it:                   *)
(*   last    the most recent call: its arguments, what it returned, the    *)
(*           keys it removed from the index, and whether it found its key  *)
(*           present with an expireAt earlier than the latest clock        *)
(*           reading                                                       *)
(*   touch   for each present key, the rank of its most recent use among   *)
(*           the present keys (1 = least recently used)                    *)
(*   ref     a reference map: for each present key, the value of the most  *)
(*           recent Add of it and the expireAt of the most recent Add or   *)
(*           UpdateExpiration of it                                        *)
(*   seen    the number of Get calls that returned found / not found       *)
(*   adds    while every call so far was an Add: the keys added            *)
(*   maxSize the argument NewLRUCache was called with                      *)
(*   fill    the cache seen through its size alone while a caller adds     *)
(*           distinct keys to it: the number added and the size reached    *)
(* and the threads that share it:                                          *)
(*   pc      where each thread is                                          *)
(*   local   the bracket a worker runs: its calls' arguments and results   *)
(*   count   the number of brackets each worker has finished               *)
(*   snap    the metrics the Collect under way has sent so far, in the     *)
(*           order sent: hit count, miss count, size                       *)
(*   serial  the cache that running the finished brackets one after        *)
(*           another, in the order of their Unlock, produces               *)
(*   ch      the receiving end of the channel Collect sends on: "open"     *)
(*           while its receiver takes what is sent, "abandoned" once the   *)
(*           receiver has stopped receiving                                *)
(***************************************************************************)
VARIABLES cache, ll, elems, stats, cacheSize, mutex,
          last, touch, ref, seen, adds, maxSize, fill,
          pc, local, count, snap, serial, ch

cvars == <<cache, ll, elems, stats, cacheSize>>
hvars == <<last, touch, ref, seen, adds, maxSize, fill>>
tvars == <<pc, local, count, snap, serial, ch>>
vars == <<cache, ll, elems, stats, cacheSize, mutex,
          last, touch, ref, seen, adds, maxSize, fill,
          pc, local, count, snap, serial, ch>>

Workers == {"t1", "t2"}
Collector == "m"
Threads == Workers \cup {Collector}

NoBracket == [kind |-> Nil, key |-> Nil, value |-> NoValue, now |-> 0,
              found |-> FALSE, added |-> FALSE]
NoSnap == << >>

This == [cache |-> cache, ll |-> ll, elems |-> elems, stats |-> stats,
         cacheSize |-> cacheSize]

Is(c) ==
    /\ cache = c.cache
    /\ ll = c.ll
    /\ elems = c.elems
    /\ stats = c.stats
    /\ cacheSize = c.cacheSize

Becomes(c) ==
    /\ cache' = c.cache
    /\ ll' = c.ll
    /\ elems' = c.elems
    /\ stats' = c.stats
    /\ cacheSize' = c.cacheSize

Call(op, key, value, expireAt, now, r) ==
    [op |-> op, key |-> key, value |-> value, expireAt |-> expireAt,
     now |-> now, ok |-> r.ok, ret |-> r.value,
     removed |-> DOMAIN cache \ DOMAIN r.c.cache,
     expired |-> key \in DOMAIN cache /\ elems[cache[key]].expireAt < MaxTime]

NoCall == [op |-> "New", key |-> Nil, value |-> NoValue, expireAt |-> 0,
           now |-> 0, ok |-> FALSE, ret |-> NoValue, removed |-> {},
           expired |-> FALSE]

\* A use of a key: an Add of it, or a Get of it that hit.
IsUse(call) == call.op = "Add" \/ (call.op = "Get" /\ call.ok)

Restrict(f, S) == [x \in DOMAIN f \cap S |-> f[x]]

MaxOf(f) == IF DOMAIN f = {} THEN 0
            ELSE CHOOSE m \in Range(f) : \A n \in Range(f) : n <= m

Ranks(f) == [x \in DOMAIN f |-> Cardinality({y \in DOMAIN f : f[y] <= f[x]})]

Touch(t, call, present) ==
    LET used == IF IsUse(call)
                THEN [k \in DOMAIN t \cup {call.key} |->
                         IF k = call.key THEN MaxOf(t) + 1 ELSE t[k]]
                ELSE t
    IN  Ranks(Restrict(used, present))

Ref(m, call, present) ==
    LET set == IF call.op = "Add"
               THEN [k \in DOMAIN m \cup {call.key} |->
                        IF k = call.key
                        THEN [value |-> call.value, expireAt |-> call.expireAt]
                        ELSE m[k]]
               ELSE IF call.op = "UpdateExpiration" /\ call.key \in DOMAIN m
               THEN [m EXCEPT ![call.key].expireAt = call.expireAt]
               ELSE m
    IN  Restrict(set, present)

Seen(s, call) ==
    IF call.op # "Get" THEN s
    ELSE IF call.ok THEN [s EXCEPT !.hit = @ + 1]
    ELSE [s EXCEPT !.miss = @ + 1]

NoAdds == [only |-> FALSE, keys |-> {}]

Adds(a, call) ==
    IF a.only /\ call.op = "Add"
    THEN [a EXCEPT !.keys = @ \cup {call.key}]
    ELSE NoAdds

Record(call, c) ==
    /\ last' = call
    /\ touch' = Touch(touch, call, DOMAIN c.cache)
    /\ ref' = Ref(ref, call, DOMAIN c.cache)
    /\ seen' = Seen(seen, call)
    /\ adds' = Adds(adds, call)
    /\ UNCHANGED <<maxSize, fill>>

Init ==
    /\ maxSize \in MaxSizes
    /\ Is(NewLRUCache(maxSize))
    /\ mutex = FALSE
    /\ last = NoCall
    /\ touch = EmptyMap
    /\ ref = EmptyMap
    /\ seen = [hit |-> 0, miss |-> 0]
    /\ adds = [only |-> TRUE, keys |-> {}]
    /\ fill = [n |-> 0, size |-> 0]
    /\ pc = [t \in Threads |-> "idle"]
    /\ local = [t \in Workers |-> NoBracket]
    /\ count = [t \in Workers |-> 0]
    /\ snap = NoSnap
    /\ serial = This
    /\ ch = "open"

(***************************************************************************)
(* A single caller: each step is one call of a method of the cache.        *)
(***************************************************************************)
CallAdd(key, value, expireAt) ==
    LET r == Add(This, key, value, expireAt)
    IN  /\ Becomes(r.c)
        /\ Record(Call("Add", key, value, expireAt, 0, r), r.c)
        /\ UNCHANGED <<mutex, tvars>>

CallGet(key, now) ==
    LET r == Get(This, key, now)
    IN  /\ stats.Hit + stats.Miss < MaxGets
        /\ Becomes(r.c)
        /\ Record(Call("Get", key, NoValue, 0, now, r), r.c)
        /\ UNCHANGED <<mutex, tvars>>

CallRemove(key) ==
    LET r == Remove(This, key)
    IN  /\ Becomes(r.c)
        /\ Record(Call("Remove", key, NoValue, 0, 0, r), r.c)
        /\ UNCHANGED <<mutex, tvars>>

CallUpdateExpiration(key, expireAt) ==
    LET r == UpdateExpiration(This, key, expireAt)
    IN  /\ Becomes(r.c)
        /\ Record(Call("UpdateExpiration", key, NoValue, expireAt, 0, r), r.c)
        /\ UNCHANGED <<mutex, tvars>>

Next ==
    \/ \E k \in Keys, v \in Values, e \in ExpireAts : CallAdd(k, v, e)
    \/ \E k \in Keys, t \in Times : CallGet(k, t)
    \/ \E k \in Keys : CallRemove(k)
    \/ \E k \in Keys, e \in ExpireAts : CallUpdateExpiration(k, e)

Spec == Init /\ [][Next]_vars

(***************************************************************************)
(* Threads sharing the cache.  Each worker runs brackets                   *)
(*     Lock; Get(k); if it missed, Add(k, v, future expiry); Unlock        *)
(* or  Lock; Remove(k); Unlock                                             *)
(* and the collector thread runs Collect, which takes the lock itself.     *)
(***************************************************************************)
\* c.mutex.Lock() returns once the mutex is free, and holds it then.
Acquire == mutex = FALSE /\ mutex' = TRUE

Release == mutex' = FALSE

\* A whole bracket, run on cache c without interruption.
RunBracket(c, b) ==
    IF b.kind = "GetOrAdd"
    THEN LET g == Get(c, b.key, b.now)
         IN  IF g.ok THEN g.c ELSE Add(g.c, b.key, b.value, FutureExpiry).c
    ELSE Remove(c, b.key).c

\* Lock that does not wait for the mutex.
Lock_noWait(t) ==
    /\ pc[t] = "idle"
    /\ count[t] < MaxBrackets
    /\ mutex' = TRUE
    /\ \E kind \in {"GetOrAdd", "Remove"}, k \in Keys, v \in Values :
          /\ local' = [local EXCEPT ![t] =
                          [NoBracket EXCEPT !.kind = kind, !.key = k, !.value = v]]
          /\ pc' = [pc EXCEPT ![t] = IF kind = "GetOrAdd" THEN "get" ELSE "remove"]
    /\ UNCHANGED <<cvars, hvars, count, snap, serial, ch>>

Lock(t) ==
    /\ pc[t] = "idle"
    /\ count[t] < MaxBrackets
    /\ Acquire
    /\ \E kind \in {"GetOrAdd", "Remove"}, k \in Keys, v \in Values :
          /\ local' = [local EXCEPT ![t] =
                          [NoBracket EXCEPT !.kind = kind, !.key = k, !.value = v]]
          /\ pc' = [pc EXCEPT ![t] = IF kind = "GetOrAdd" THEN "get" ELSE "remove"]
    /\ UNCHANGED <<cvars, hvars, count, snap, serial, ch>>

WorkerGet(t) ==
    /\ pc[t] = "get"
    /\ \E now \in Times :
          LET r == Get(This, local[t].key, now)
          IN  /\ Becomes(r.c)
              /\ local' = [local EXCEPT ![t].now = now, ![t].found = r.ok]
              /\ pc' = [pc EXCEPT ![t] = IF r.ok THEN "unlock" ELSE "add"]
    /\ UNCHANGED <<mutex, hvars, count, snap, serial, ch>>

WorkerAdd(t) ==
    /\ pc[t] = "add"
    /\ Becomes(Add(This, local[t].key, local[t].value, FutureExpiry).c)
    /\ local' = [local EXCEPT ![t].added = TRUE]
    /\ pc' = [pc EXCEPT ![t] = "unlock"]
    /\ UNCHANGED <<mutex, hvars, count, snap, serial, ch>>

WorkerRemove(t) ==
    /\ pc[t] = "remove"
    /\ Becomes(Remove(This, local[t].key).c)
    /\ pc' = [pc EXCEPT ![t] = "unlock"]
    /\ UNCHANGED <<mutex, hvars, local, count, snap, serial, ch>>

Unlock(t) ==
    /\ pc[t] = "unlock"
    /\ Release
    /\ pc' = [pc EXCEPT ![t] = "idle"]
    /\ count' = [count EXCEPT ![t] = @ + 1]
    /\ serial' = RunBracket(serial, local[t])
    /\ local' = [local EXCEPT ![t].value = NoValue, ![t].now = 0]
    /\ UNCHANGED <<cvars, hvars, snap, ch>>

\* ch <- metric: the send returns when the receiver has taken the metric.
Send(metric) ==
    /\ ch = "open"
    /\ snap' = Append(snap, metric)

\* Collect that reads without taking the lock.
CollectLock_unlocked ==
    /\ pc[Collector] = "idle"
    /\ pc' = [pc EXCEPT ![Collector] = "hit"]
    /\ snap' = NoSnap
    /\ UNCHANGED <<cvars, hvars, mutex, local, count, serial, ch>>

\* Collect: c.mutex.Lock(), the three sends, and the deferred Unlock.
CollectLock ==
    /\ pc[Collector] = "idle"
    /\ Acquire
    /\ pc' = [pc EXCEPT ![Collector] = "hit"]
    /\ snap' = NoSnap
    /\ UNCHANGED <<cvars, hvars, local, count, serial, ch>>

CollectHit ==
    /\ pc[Collector] = "hit"
    /\ Send(stats.Hit)
    /\ pc' = [pc EXCEPT ![Collector] = "miss"]
    /\ UNCHANGED <<cvars, hvars, mutex, local, count, serial, ch>>

CollectMiss ==
    /\ pc[Collector] = "miss"
    /\ Send(stats.Miss)
    /\ pc' = [pc EXCEPT ![Collector] = "size"]
    /\ UNCHANGED <<cvars, hvars, mutex, local, count, serial, ch>>

CollectSize ==
    /\ pc[Collector] = "size"
    /\ Send(Cardinality(DOMAIN cache))
    /\ pc' = [pc EXCEPT ![Collector] = "return"]
    /\ UNCHANGED <<cvars, hvars, mutex, local, count, serial, ch>>

CollectUnlock ==
    /\ pc[Collector] = "return"
    /\ Release
    /\ pc' = [pc EXCEPT ![Collector] = "idle"]
    /\ snap' = NoSnap
    /\ UNCHANGED <<cvars, hvars, local, count, serial, ch>>

NextLocked ==
    \/ \E t \in Workers : Lock(t)
    \/ \E t \in Workers : WorkerGet(t)
    \/ \E t \in Workers : WorkerAdd(t)
    \/ \E t \in Workers : WorkerRemove(t)
    \/ \E t \in Workers : Unlock(t)
    \/ CollectLock
    \/ CollectHit
    \/ CollectMiss
    \/ CollectSize
    \/ CollectUnlock

SpecLocked == Init /\ [][NextLocked]_vars

(***************************************************************************)
(* A caller that only adds distinct keys to a new cache.  With the default *)
(* capacity the list grows to 50,000 elements, so this caller's cache is   *)
(* followed through its size alone: an Add of an absent key pushes one     *)
(* element and, when Exceeds holds of the new length, removes the back     *)
(* one.  The caller adds its keys one at a time or a batch at a time.      *)
(***************************************************************************)
SizeAfterAdd(len, size) == IF Exceeds(len + 1, size) THEN len + 1 - 1 ELSE len + 1

RECURSIVE SizeAfterAdds(_, _, _)
SizeAfterAdds(len, size, k) ==
    IF k = 0 THEN len ELSE SizeAfterAdds(SizeAfterAdd(len, size), size, k - 1)

FillSteps == {1, 10}
MaxFill == DefaultCacheSize + 1

FillAdd(k) ==
    /\ fill.n + k <= MaxFill
    /\ fill' = [n |-> fill.n + k,
                size |-> SizeAfterAdds(fill.size, cacheSize, k)]
    /\ UNCHANGED <<cvars, mutex, tvars, last, touch, ref, seen, adds, maxSize>>

NextFill == \E k \in FillSteps : FillAdd(k)

SpecFill == Init /\ [][NextFill]_vars

(***************************************************************************)
(* Callers whose calls are followed from invocation to return.  pc[t] is   *)
(* "idle", "held" (t is between Lock and Unlock and about to call), or the *)
(* name of the call t has invoked and that has not returned.  A thread     *)
(* that is idle invokes Lock or Collect; a thread that holds the lock      *)
(* invokes one call, any method of the cache, and then Unlock.  The mutex  *)
(* is sync.Mutex: it knows no owner, so a Lock by the thread that holds it *)
(* waits like any other.  local[t].kind marks the thread that holds the    *)
(* lock through Lock.  Each send of Collect is a step of its own, taken    *)
(* with the receiver of the channel; the receiver is not part of the       *)
(* cache and may stop receiving.                                           *)
(***************************************************************************)
HeldKeys == {"a"}
HeldValues == {"v1"}
HeldCalls == {"Add", "Get", "Remove", "UpdateExpiration", "Size", "Lock",
              "Collect"}

Holds(t) == local[t].kind = "held"

\* The Get calls invoked and not returned.
Gets == Cardinality({t \in Workers : pc[t] = "Get"})

\* The calls a thread makes from outside any bracket.
Invoke(t) ==
    /\ pc[t] = "idle"
    /\ count[t] < MaxBrackets
    /\ \E call \in {"Lock", "Collect"} : pc' = [pc EXCEPT ![t] = call]
    /\ UNCHANGED <<cvars, hvars, mutex, local, count, snap, serial, ch>>

\* The call a thread makes inside its bracket.
InvokeHeld(t) ==
    /\ pc[t] = "held"
    /\ \E call \in HeldCalls :
          /\ call = "Get" => stats.Hit + stats.Miss + Gets < MaxGets
          /\ pc' = [pc EXCEPT ![t] = call]
    /\ UNCHANGED <<cvars, hvars, mutex, local, count, snap, serial, ch>>

LockReturn(t) ==
    /\ pc[t] = "Lock"
    /\ Acquire
    /\ pc' = [pc EXCEPT ![t] = IF Holds(t) THEN "Unlock" ELSE "held"]
    /\ local' = [local EXCEPT ![t].kind = "held"]
    /\ UNCHANGED <<cvars, hvars, count, snap, serial, ch>>

AddReturn(t) ==
    /\ pc[t] = "Add"
    /\ \E k \in HeldKeys, v \in HeldValues :
          Becomes(Add(This, k, v, FutureExpiry).c)
    /\ pc' = [pc EXCEPT ![t] = "Unlock"]
    /\ UNCHANGED <<hvars, mutex, local, count, snap, serial, ch>>

GetReturn(t) ==
    /\ pc[t] = "Get"
    /\ \E k \in HeldKeys : Becomes(Get(This, k, 0).c)
    /\ pc' = [pc EXCEPT ![t] = "Unlock"]
    /\ UNCHANGED <<hvars, mutex, local, count, snap, serial, ch>>

RemoveReturn(t) ==
    /\ pc[t] = "Remove"
    /\ \E k \in HeldKeys : Becomes(Remove(This, k).c)
    /\ pc' = [pc EXCEPT ![t] = "Unlock"]
    /\ UNCHANGED <<hvars, mutex, local, count, snap, serial, ch>>

UpdateExpirationReturn(t) ==
    /\ pc[t] = "UpdateExpiration"
    /\ \E k \in HeldKeys : Becomes(UpdateExpiration(This, k, 0).c)
    /\ pc' = [pc EXCEPT ![t] = "Unlock"]
    /\ UNCHANGED <<hvars, mutex, local, count, snap, serial, ch>>

SizeReturn(t) ==
    /\ pc[t] = "Size"
    /\ pc' = [pc EXCEPT ![t] = "Unlock"]
    /\ UNCHANGED <<cvars, hvars, mutex, local, count, snap, serial, ch>>

UnlockReturn(t) ==
    /\ pc[t] = "Unlock"
    /\ Release
    /\ pc' = [pc EXCEPT ![t] = "idle"]
    /\ local' = [local EXCEPT ![t].kind = Nil]
    /\ count' = [count EXCEPT ![t] = @ + 1]
    /\ UNCHANGED <<cvars, hvars, snap, serial, ch>>

\* Collect, line 167: c.mutex.Lock().
CollectEnter(t) ==
    /\ pc[t] = "Collect"
    /\ Acquire
    /\ pc' = [pc EXCEPT ![t] = "Collect.hit"]
    /\ UNCHANGED <<cvars, hvars, local, count, snap, serial, ch>>

\* Collect, line 169: the send of the hit counter.
CollectSendHit(t) ==
    /\ pc[t] = "Collect.hit"
    /\ Send(stats.Hit)
    /\ pc' = [pc EXCEPT ![t] = "Collect.miss"]
    /\ UNCHANGED <<cvars, hvars, mutex, local, count, serial, ch>>

\* Collect, line 170: the send of the miss counter.
CollectSendMiss(t) ==
    /\ pc[t] = "Collect.miss"
    /\ Send(stats.Miss)
    /\ pc' = [pc EXCEPT ![t] = "Collect.size"]
    /\ UNCHANGED <<cvars, hvars, mutex, local, count, serial, ch>>

\* Collect, line 171: the send of the size.
CollectSendSize(t) ==
    /\ pc[t] = "Collect.size"
    /\ Send(Cardinality(DOMAIN cache))
    /\ pc' = [pc EXCEPT ![t] = "Collect.unlock"]
    /\ UNCHANGED <<cvars, hvars, mutex, local, count, serial, ch>>

\* Collect that returns without the deferred Unlock.
CollectReturn_keepsLock(t) ==
    /\ pc[t] = "Collect.unlock"
    /\ pc' = [pc EXCEPT ![t] = IF Holds(t) THEN "Unlock" ELSE "idle"]
    /\ count' = [count EXCEPT ![t] = IF Holds(t) THEN @ ELSE @ + 1]
    /\ snap' = NoSnap
    /\ UNCHANGED <<cvars, hvars, mutex, local, serial, ch>>

\* Collect, line 168: the deferred c.mutex.Unlock(), and the return.
CollectReturn(t) ==
    /\ pc[t] = "Collect.unlock"
    /\ Release
    /\ pc' = [pc EXCEPT ![t] = IF Holds(t) THEN "Unlock" ELSE "idle"]
    /\ count' = [count EXCEPT ![t] = IF Holds(t) THEN @ ELSE @ + 1]
    /\ snap' = NoSnap
    /\ UNCHANGED <<cvars, hvars, local, serial, ch>>

\* The steps of a thread that has a bracket or a call to finish.
Proceed(t) ==
    \/ InvokeHeld(t)
    \/ LockReturn(t)
    \/ AddReturn(t)
    \/ GetReturn(t)
    \/ RemoveReturn(t)
    \/ UpdateExpirationReturn(t)
    \/ SizeReturn(t)
    \/ UnlockReturn(t)
    \/ CollectEnter(t)
    \/ CollectSendHit(t)
    \/ CollectSendMiss(t)
    \/ CollectSendSize(t)
    \/ CollectReturn(t)

\* The receiver of the channel stops receiving.
ReceiverStops ==
    /\ ch = "open"
    /\ ch' = "abandoned"
    /\ UNCHANGED <<cvars, hvars, mutex, pc, local, count, snap, serial>>

NextCallers ==
    \/ \E t \in Workers : Invoke(t)
    \/ \E t \in Workers : Proceed(t)
    \/ ReceiverStops

\* Fair scheduling: a thread whose next step is possible again and again
\* takes it.  A thread need not start a bracket or a Collect, and the
\* receiver of the channel may stop receiving at any time.
FairCallers == \A t \in Workers : SF_vars(Proceed(t))

SpecCallers == Init /\ [][NextCallers]_vars /\ FairCallers

(***************************************************************************)
(* Properties.  Those of a single call are action properties: last' names  *)
(* the call of the step, the unprimed variables are the cache before it    *)
(* and the primed ones the cache after it.                                 *)
(***************************************************************************)
Present == DOMAIN cache

\* The keys of the list, front to back.
KeyOrder == [i \in 1 .. Len(ll) |-> elems[ll[i]].key]

Without(s, k) == SelectSeq(s, LAMBDA x : x # k)

\* The record stored for a present key.
Entry(k) == elems[cache[k]]

\* The record stored for a key that is present after the step.
EntryAfter(k) == elems'[cache'[k]]

\* The entries of the keys in S are the same before and after the step.
SameEntries(S) == \A k \in S : k \in Present' /\ EntryAfter(k) = Entry(k)

\* C1: with positive capacity M and M entries, an Add of an absent key
\* evicts exactly the least recently used key (the one whose last use is
\* older than that of every other present key); every other entry stays,
\* the new key is present and Size() is still M.
C1_AddEvictsLeastRecentlyUsed ==
    [][(/\ last'.op = "Add"
        /\ cacheSize > 0
        /\ Size(This) = cacheSize
        /\ last'.key \notin Present)
       => \E victim \in Present :
             /\ \A o \in Present \ {victim} : touch[victim] < touch[o]
             /\ Present' = (Present \ {victim}) \cup {last'.key}
             /\ SameEntries(Present \ {victim})
             /\ Without(KeyOrder', last'.key) = Without(KeyOrder, victim)
             /\ Size(This)' = cacheSize]_vars

\* An Add into a full cache of capacity 2 evicted a key after a Get had hit.
C1_Witness ==
    /\ last.op = "Add"
    /\ ~last.ok
    /\ cacheSize = 2
    /\ Size(This) = 2
    /\ last.removed # {}
    /\ last.key \notin last.removed
    /\ seen.hit > 0

\* C2: the index and the list are consistent in every reachable state: same
\* number of entries, same key set, one list element per present key, and
\* the index maps each key to the element holding that key; so the size
\* Collect reports (length of the index) equals Size().
C2_IndexMatchesList ==
    /\ Cardinality(DOMAIN cache) = Len(ll)
    /\ \A i \in 1 .. Len(ll) : ll[i] \in DOMAIN elems
    /\ {elems[ll[i]].key : i \in 1 .. Len(ll)} = DOMAIN cache
    /\ \A k \in DOMAIN cache :
          /\ Cardinality({i \in 1 .. Len(ll) : elems[ll[i]].key = k}) = 1
          /\ InList(ll, cache[k])
          /\ elems[cache[k]].key = k
    /\ Cardinality(DOMAIN cache) = Size(This)

\* A call removed a key and left two others.
C2_Witness ==
    /\ last.removed # {}
    /\ Len(ll) = 2
    /\ Cardinality(DOMAIN cache) = 2

\* C3: with positive capacity M, Size() <= M in every state between calls.
C3_SizeWithinCapacity == cacheSize > 0 => Size(This) <= cacheSize

\* An Add of a new key evicted an entry of a full cache.
C3_Witness ==
    /\ last.op = "Add"
    /\ ~last.ok
    /\ last.removed # {}
    /\ cacheSize > 0
    /\ Size(This) = cacheSize

\* C4: Get agrees with the reference map: it finds the key exactly when the
\* key is present and its expire_at is not less than the clock reading, it
\* then returns the value of the most recent Add of the key, and a Get of an
\* absent key leaves the index and the list as they are.
C4_GetAgreesWithReference ==
    [][last'.op = "Get"
       => LET k == last'.key
          IN  /\ last'.ok <=> (k \in DOMAIN ref /\ ref[k].expireAt >= last'.now)
              /\ last'.ok => last'.ret = ref[k].value
              /\ (k \in Present) <=> (k \in DOMAIN ref)
              /\ k \notin Present =>
                    /\ ~last'.ok
                    /\ cache' = cache
                    /\ ll' = ll
                    /\ elems' = elems]_vars

\* A Get hit an entry that expires exactly at the clock reading and returned
\* the value of an overwriting Add.
C4_Witness ==
    /\ last.op = "Get"
    /\ last.ok
    /\ last.key \in Present
    /\ Entry(last.key).expireAt = last.now
    /\ last.ret = "v2"
    /\ seen.miss > 0

\* C5: Get of a present key whose expire_at is earlier than the clock
\* reading returns not-found, adds one to misses and nothing to hits, and
\* removes the entry from the index and the list (Size() is one less); the
\* other entries and their order are unchanged.
C5_GetPurgesExpired ==
    [][(/\ last'.op = "Get"
        /\ last'.key \in Present
        /\ Entry(last'.key).expireAt < last'.now)
       => /\ ~last'.ok
          /\ stats'.Miss = stats.Miss + 1
          /\ stats'.Hit = stats.Hit
          /\ Present' = Present \ {last'.key}
          /\ KeyOrder' = Without(KeyOrder, last'.key)
          /\ Size(This)' = Size(This) - 1
          /\ SameEntries(Present \ {last'.key})]_vars

\* A Get purged an expired entry and another entry is still there.
C5_Witness ==
    /\ last.op = "Get"
    /\ ~last.ok
    /\ last.removed = {last.key}
    /\ Size(This) = 1

\* C6: Add of a present key returns true, keeps Size() and the key set,
\* overwrites value and expire_at, moves the entry to the front, evicts
\* nothing and keeps the relative order of the other entries.
C6_AddOverwrites ==
    [][(last'.op = "Add" /\ last'.key \in Present)
       => /\ last'.ok
          /\ Size(This)' = Size(This)
          /\ Present' = Present
          /\ EntryAfter(last'.key) =
                cacheRecord(last'.key, last'.value, last'.expireAt)
          /\ KeyOrder'[1] = last'.key
          /\ last'.removed = {}
          /\ Without(KeyOrder', last'.key) = Without(KeyOrder, last'.key)
          /\ SameEntries(Present \ {last'.key})]_vars

\* An overwriting Add in a full cache of capacity 2.
C6_Witness ==
    /\ last.op = "Add"
    /\ last.ok
    /\ cacheSize = 2
    /\ Size(This) = 2
    /\ Entry(last.key).value = last.value

\* C7: the hit counter is the number of Gets that hit and the miss counter
\* the number of Gets that missed: each Get adds one to exactly one of
\* them, no other call changes them, and neither decreases.
C7_CountersCountGets ==
    /\ [](stats.Hit = seen.hit /\ stats.Miss = seen.miss)
    /\ [][/\ last'.op = "Get" =>
                \/ stats' = [stats EXCEPT !.Hit = @ + 1]
                \/ stats' = [stats EXCEPT !.Miss = @ + 1]
          /\ last'.op # "Get" => stats' = stats
          /\ stats'.Hit >= stats.Hit
          /\ stats'.Miss >= stats.Miss]_vars

\* One Get hit, one missed, and another call followed.
C7_Witness ==
    /\ stats.Hit = 1
    /\ stats.Miss = 1
    /\ last.op \in {"Add", "Remove", "UpdateExpiration"}

\* Expired at some reading of the clock.
Expired(rec) == \E t \in Times : rec.expireAt < t

\* C10: an entry (expired or not) leaves the cache only by a Get of its
\* key, a Remove of its key, or by being at the back when an Add of a new
\* key exceeds the capacity; that Add evicts the back entry whatever the
\* expiration of the entries, and UpdateExpiration purges nothing.
C10_LazyExpiration ==
    [][/\ \A k \in Present :
             k \notin Present' =>
                \/ last'.op = "Get" /\ last'.key = k
                \/ last'.op = "Remove" /\ last'.key = k
                \/ /\ last'.op = "Add"
                   /\ last'.key \notin Present
                   /\ k = KeyOrder[Len(ll)]
                   /\ cacheSize # 0
                   /\ Len(ll) + 1 > cacheSize
       /\ \A k \in Present :
             (Expired(Entry(k)) /\ k \in Present')
                => \E i \in 1 .. Len(ll') : KeyOrder'[i] = k
       /\ (/\ last'.op = "Add"
           /\ last'.key \notin Present
           /\ cacheSize > 0
           /\ Len(ll) = cacheSize)
          => last'.removed = {KeyOrder[Len(ll)]}]_vars

\* A capacity eviction left an expired entry in the cache.
C10_Witness ==
    /\ last.op = "Add"
    /\ last.removed # {}
    /\ \E k \in Present \ {last.key} : Expired(Entry(k))
    /\ ~Expired(Entry(last.key))

\* The threads inside a lock-held bracket.
Inside == {t \in Threads : pc[t] # "idle"}

\* Both workers have run one get-or-add bracket on the same key, and nothing
\* else has run on the cache.
BothGotOrAdded ==
    /\ \A t \in Workers :
          /\ pc[t] = "idle"
          /\ count[t] = 1
          /\ local[t].kind = "GetOrAdd"
    /\ \A t, u \in Workers : local[t].key = local[u].key

\* Exactly one worker performed the Add, and the Get of the other hit.
OneAddedOtherHit ==
    \E t \in Workers :
       /\ local[t].added /\ ~local[t].found
       /\ \A u \in Workers \ {t} : local[u].found /\ ~local[u].added

\* At most one thread is inside a bracket, and between brackets the cache is
\* the one that running the finished brackets one after another produces.
BracketsSerialize ==
    /\ Cardinality(Inside) <= 1
    /\ mutex <=> Inside # {}
    /\ ~mutex => This = serial

\* C8: when every thread brackets its calls with Lock ... Unlock, at most one
\* thread is inside a bracket and every bracket takes effect as one atomic
\* unit; and when the two workers each ran
\*     Lock; Get(k); if miss Add(k, v, future expiry); Unlock
\* on an empty cache, exactly one of them performed the Add and the Get of
\* the other hit.
C8_BracketsAreAtomic ==
    /\ BracketsSerialize
    /\ BothGotOrAdded => OneAddedOtherHit

\* C9: Collect holds the lock for the whole snapshot: while it runs the
\* cache stays the one left by the last finished bracket, so the hit count,
\* miss count and size it sends all come from that one state.
C9_CollectSnapshotIsConsistent ==
    pc[Collector] # "idle"
       => LET whole == <<serial.stats.Hit, serial.stats.Miss,
                         Cardinality(DOMAIN serial.cache)>>
          IN  /\ This = serial
              /\ Len(snap) <= 3
              /\ snap = SubSeq(whole, 1, Len(snap))
              /\ pc[Collector] = "return" => snap = whole

\* A Collect has sent one hit, one miss and size 1.
C9_Witness ==
    /\ pc[Collector] = "return"
    /\ snap = <<1, 1, 1>>

\* C11 as claimed: a cache created with max_size 0 is unbounded, so after
\* adding any number n of distinct keys Size() equals n.
C11_ZeroIsUnbounded == maxSize = 0 => fill.size = fill.n

\* C11, amended: a cache created with max_size 0 has the default capacity
\* 50,000: after adding n distinct keys Size() equals n up to 50,000 keys
\* and stays 50,000 beyond.
C11_ZeroGetsDefaultCapacity ==
    maxSize = 0
       => /\ cacheSize = DefaultCacheSize
          /\ fill.n <= DefaultCacheSize => fill.size = fill.n
          /\ fill.n > DefaultCacheSize => fill.size = DefaultCacheSize

\* 50,001 distinct keys were added to a cache created with max_size 0, and
\* it holds 50,000.
C11_Witness ==
    /\ maxSize = 0
    /\ fill.n = DefaultCacheSize + 1
    /\ fill.size = DefaultCacheSize

\* C12: NewLRUCache normalizes every non-positive max size (zero or negative)
\* to the default capacity 50,000: the cache stores up to 50,000 entries and
\* evicts only when that number is exceeded.
C12_NonPositiveGetsDefaultCapacity ==
    maxSize <= 0
       => /\ fill.n <= DefaultCacheSize => fill.size = fill.n
          /\ fill.n > DefaultCacheSize => fill.size = DefaultCacheSize

\* C13: UpdateExpiration of a present key returns true and changes only the
\* expire_at of that entry: its value, its position, the other entries and
\* their positions, the key set, Size() and both counters stay.
C13_UpdateExpirationOnlySetsExpireAt ==
    [][(last'.op = "UpdateExpiration" /\ last'.key \in Present)
       => /\ last'.ok
          /\ EntryAfter(last'.key) =
                [Entry(last'.key) EXCEPT !.expireAt = last'.expireAt]
          /\ SameEntries(Present \ {last'.key})
          /\ Present' = Present
          /\ cache' = cache
          /\ ll' = ll
          /\ KeyOrder' = KeyOrder
          /\ Size(This)' = Size(This)
          /\ stats' = stats]_vars

\* UpdateExpiration gave a later expire_at to the entry at the back of a
\* list of three, and the entry is still at the back.
C13_Witness ==
    /\ last.op = "UpdateExpiration"
    /\ last.ok
    /\ last.expired
    /\ Len(ll) = 3
    /\ KeyOrder[3] = last.key
    /\ Entry(last.key).expireAt = MaxTime
    /\ last.expireAt = MaxTime

\* C14: UpdateExpiration of an absent key returns false and leaves the whole
\* cache as it is: index, list, Size() and counters; no entry is created.
C14_UpdateExpirationOfAbsentKey ==
    [][(last'.op = "UpdateExpiration" /\ last'.key \notin Present)
       => /\ ~last'.ok
          /\ cache' = cache
          /\ ll' = ll
          /\ elems' = elems
          /\ Size(This)' = Size(This)
          /\ stats' = stats
          /\ cacheSize' = cacheSize
          /\ last'.key \notin Present']_vars

\* UpdateExpiration of an absent key returned false in a cache that holds
\* two other keys.
C14_Witness ==
    /\ last.op = "UpdateExpiration"
    /\ ~last.ok
    /\ last.key \notin Present
    /\ Size(This) = 2
    /\ stats.Hit = 1

\* C15: Remove of a present key, expired or not, deletes exactly that entry
\* from index and list and leaves the other entries, their relative order
\* and both counters; Remove of an absent key leaves the cache state as it
\* is.  A Get of the key right after its Remove misses, and an Add of the
\* key right after its Remove returns false.
C15_RemoveDeletesExactlyTheKey ==
    [][/\ (last'.op = "Remove" /\ last'.key \in Present)
          => /\ Present' = Present \ {last'.key}
             /\ ll' = ListRemove(ll, cache[last'.key])
             /\ KeyOrder' = Without(KeyOrder, last'.key)
             /\ SameEntries(Present \ {last'.key})
             /\ Size(This)' = Size(This) - 1
             /\ stats' = stats
       /\ (last'.op = "Remove" /\ last'.key \notin Present)
          => /\ cache' = cache
             /\ ll' = ll
             /\ elems' = elems
             /\ stats' = stats
             /\ cacheSize' = cacheSize
       /\ (last.op = "Remove" /\ last'.op = "Get" /\ last'.key = last.key)
          => /\ ~last'.ok
             /\ stats'.Miss = stats.Miss + 1
             /\ stats'.Hit = stats.Hit
       /\ (last.op = "Remove" /\ last'.op = "Add" /\ last'.key = last.key)
          => ~last'.ok]_vars

\* Remove deleted an expired entry and left the two other entries, after a
\* Get had hit.
C15_Witness ==
    /\ last.op = "Remove"
    /\ last.removed = {last.key}
    /\ last.expired
    /\ Size(This) = 2
    /\ Present = Keys \ {last.key}
    /\ stats.Hit = 1

\* C16: in a cache of positive capacity M that has seen only Add calls, on
\* at most M distinct keys (repeats and any expire_at allowed), Size() is
\* the number of distinct keys added, and every Add of a new key returned
\* false.
C16_AddsWithinCapacityAreAllKept ==
    /\ []((/\ cacheSize > 0
           /\ adds.only
           /\ Cardinality(adds.keys) <= cacheSize)
          => /\ Size(This) = Cardinality(adds.keys)
             /\ Present = adds.keys)
    /\ [][(/\ cacheSize > 0
           /\ adds'.only
           /\ last'.op = "Add"
           /\ Cardinality(adds'.keys) <= cacheSize
           /\ last'.key \notin adds.keys)
          => ~last'.ok]_vars

\* Only Adds so far, on two distinct keys in a cache of capacity 2, the
\* last of them a repeat that overwrote an expired entry.
C16_Witness ==
    /\ adds.only
    /\ maxSize = 2
    /\ cacheSize = 2
    /\ Cardinality(adds.keys) = 2
    /\ last.op = "Add"
    /\ last.ok
    /\ last.expired
    /\ Size(This) = 2

\* A call of thread t that has been invoked and has not returned.
Pending(t) == pc[t] \notin {"idle", "held"}

\* Thread t has called Lock or Collect while holding the lock.
Reentered(t) == Holds(t) /\ pc[t] \in {"Lock", "Collect"}

\* Thread t is inside a send of Collect whose receiver has stopped
\* receiving.
Unreceived(t) ==
    /\ ch = "abandoned"
    /\ pc[t] \in {"Collect.hit", "Collect.miss", "Collect.size"}

\* C17 as stated: every invoked operation eventually returns under fair
\* scheduling, also when the invoking thread holds the lock.  The runs in
\* which the receiver of the channel stops receiving are left aside, so
\* that the statement is measured on the locking alone.
C17_EveryCallReturns ==
    \A t \in Workers : Pending(t) ~> (~Pending(t) \/ ch = "abandoned")

\* C17, amended: under fair scheduling every invoked operation eventually
\* returns unless some thread has called Lock or Collect while holding the
\* lock, or is inside a Collect whose receiver no longer takes the metrics
\* sent; a call of either kind never returns.
C17_EveryCallReturnsUnlessReentered ==
    /\ \A t \in Workers :
          Pending(t) ~> \/ ~Pending(t)
                        \/ \E u \in Workers : Reentered(u) \/ Unreceived(u)
    /\ [][\A t \in Workers : /\ Reentered(t) => Reentered(t)'
                             /\ Unreceived(t) => Unreceived(t)' /\ pc'[t] = pc[t]
         ]_vars

\* Lock contention: t1 has called Lock while t2 is inside Collect, holding
\* the lock, with the hit counter received and the miss counter not yet;
\* both threads have finished a bracket or a Collect before.
C17_Witness ==
    /\ pc["t1"] = "Lock"
    /\ ~Holds("t1")
    /\ pc["t2"] = "Collect.miss"
    /\ mutex
    /\ ch = "open"
    /\ Len(snap) = 1
    /\ count["t1"] = 1
    /\ count["t2"] = 1
    /\ Size(This) = 1

\* C18: in every reachable state the list, front to back, holds the present
\* keys in strictly decreasing order of last use (an Add of the key, or a
\* Get of it that hit).  UpdateExpiration, Remove, a Get that misses and a
\* Get that purges an expired entry leave the relative order of the
\* remaining entries.
C18_ListIsOrderedByLastUse ==
    /\ [](\A i, j \in 1 .. Len(ll) :
             i < j => touch[KeyOrder[i]] > touch[KeyOrder[j]])
    /\ [][/\ last'.op = "UpdateExpiration" => KeyOrder' = KeyOrder
          /\ (last'.op = "Remove" \/ (last'.op = "Get" /\ ~last'.ok))
             => /\ KeyOrder' = Without(KeyOrder, last'.key)
                /\ \A k \in Present' : touch'[k] = Ranks(Restrict(touch, Present'))[k]
         ]_vars

\* A Get purged an expired entry after an earlier Get had hit, and two
\* entries remain in the list.
C18_Witness ==
    /\ last.op = "Get"
    /\ ~last.ok
    /\ last.removed = {last.key}
    /\ seen.hit = 1
    /\ Len(ll) = 2
    /\ touch[KeyOrder[1]] > touch[KeyOrder[2]]

\* C19: Add never evicts the entry it has just inserted: for every max size
\* given to NewLRUCache, right after Add(k, v, e) the key k is present, is
\* the front entry of the list and carries v and e, so that a Get of k at a
\* time not later than e hits and returns v.
C19_AddKeepsItsEntry ==
    last.op = "Add"
    => /\ last.key \in Present
       /\ KeyOrder[1] = last.key
       /\ Entry(last.key).value = last.value
       /\ Entry(last.key).expireAt = last.expireAt
       /\ Get(This, last.key, last.expireAt).ok
       /\ Get(This, last.key, last.expireAt).value = last.value

\* The call recorded in last was made on a key whose entry was present with
\* an expire_at that had passed, and gave the entry a new expire_at.
Revived ==
    /\ last.expired
    /\ \/ last.op = "UpdateExpiration" /\ last.ok
       \/ last.op = "Add"

\* C20: an entry whose expire_at has passed and that has not been purged
\* can be revived.  UpdateExpiration(k, e') and Add(k, v', e') on such an
\* entry leave Size() and count no miss, and the next Get(k) at a time not
\* later than e' hits, returns the old value after UpdateExpiration and v'
\* after Add, counts no miss and leaves Size().
C20_ExpiredEntryCanBeRevived ==
    [][/\ (/\ last'.op \in {"UpdateExpiration", "Add"}
           /\ last'.expired)
          => /\ last'.ok
             /\ Size(This)' = Size(This)
             /\ stats' = stats
             /\ EntryAfter(last'.key).expireAt = last'.expireAt
             /\ EntryAfter(last'.key).value =
                   IF last'.op = "Add" THEN last'.value
                   ELSE Entry(last'.key).value
       /\ (/\ Revived
           /\ last'.op = "Get"
           /\ last'.key = last.key
           /\ last'.now <= last.expireAt)
          => /\ last'.ok
             /\ last'.ret = ref[last.key].value
             /\ last.op = "Add" => last'.ret = last.value
             /\ stats'.Miss = stats.Miss
             /\ stats'.Hit = stats.Hit + 1
             /\ Size(This)' = Size(This)]_vars

\* UpdateExpiration has given a later expire_at to an entry first added
\* with an expire_at that has passed at the latest clock reading; a second
\* entry is present and a Get can follow.
C20_Witness ==
    /\ Revived
    /\ last.op = "UpdateExpiration"
    /\ last.expireAt = MaxTime
    /\ Entry(last.key).expireAt = MaxTime
    /\ Size(This) = 2
    /\ stats.Hit + stats.Miss < MaxGets

====
